---------------------------- MODULE Spec2Model ----------------------------
(***************************************************************************)
(* A model of rhttp: the request parser (request.Parse), the radix-tree    *)
(* router (router.Router), the response serializer (response.Response)     *)
(* and the connection driver (rhttp.Server).                               *)
(*                                                                         *)
(* Go strings and byte streams are sequences of one-character strings, so  *)
(* that splitting, trimming, formatting and parsing are computed, not      *)
(* assumed.                                                                *)
(***************************************************************************)
EXTENDS Integers, Sequences, FiniteSets, TLC

VARIABLES
    nodes,      \* router: the arena of *node values; a *node is an index
    trees,      \* router: Router.trees, method -> index of the root node
    routes,     \* history: the AddRoute calls made so far, <<method, path, handler>>
    found,      \* history: the last FindHandler call since the last AddRoute
                \* and what it returned
    authored,   \* parser input: the message the client composed
    stream,     \* parser input: the bytes the client sent before closing
    parsed,     \* what request.Parse returned, <<>> before the call
    parsedInternal, \* what internal/request.Parse returned, <<>> before the call
    bodyRead,   \* what io.ReadAll(req.Body) returned, <<>> before the call
    netConn,    \* parser: the connection handed to Parse, open or closed, the
                \* number of req.Body.Close() calls made, how the driver's
                \* write of the response went, and whether the driver closed it
    phase,      \* server: "setup" until ListenAndServe, then "serving" or "failed"
    alive,      \* server: the process has not been ended by a panic
    tasks,      \* server: per connection, the state of its handleConnection task
    built,      \* response: the *Response a constructor returned, <<>> before
    written,    \* response: what Write handed to the writer, <<>> before
    mu,         \* router: Router.mu, its writer flag and its reader count
    procs       \* router: the goroutines that call AddRoute and FindHandler

routerVars == <<nodes, trees, routes, found>>

parseVars == <<authored, stream, parsed, parsedInternal, bodyRead, netConn>>

serverVars == <<phase, alive, tasks>>

responseVars == <<built, written>>

lockVars == <<mu, procs>>

vars == <<nodes, trees, routes, found,
          authored, stream, parsed, parsedInternal, bodyRead, netConn,
          phase, alive, tasks, built, written, mu, procs>>

-----------------------------------------------------------------------------
(* Bounds of the model.                                                    *)

\* AddRoute calls in one run
MaxRoutes == 2
\* segments of a registered path; a looked-up target has up to one more
MaxSegs == 2
\* space-separated tokens of a request line
MaxTokens == 4
\* header lines of a request
MaxHeaders == 2
\* bytes sent after the header block
MaxBody == 3
\* connections the listener accepts
MaxConns == 2
\* bytes the bufio.Writer of Response.Write buffers before it flushes
\* (bufio.NewWriter: 4096), scaled to the short responses written here
BufSize == 16

-----------------------------------------------------------------------------
(* Strings.                                                                *)

SP == " "
CR == "\r"
LF == "\n"
TAB == "\t"

\* strings.Index for a one-byte separator, 1-based; 0 when absent
IndexByte(s, c) ==
    IF \E k \in 1..Len(s) : s[k] = c
    THEN CHOOSE k \in 1..Len(s) : s[k] = c /\ \A j \in 1..(k - 1) : s[j] # c
    ELSE 0

\* strings.Split(s, sep) for a one-byte separator
RECURSIVE Split(_, _)
Split(s, c) ==
    LET k == IndexByte(s, c)
    IN  IF k = 0 THEN <<s>>
        ELSE <<SubSeq(s, 1, k - 1)>> \o Split(SubSeq(s, k + 1, Len(s)), c)

\* strings.Trim(s, cutset) for a cutset of bytes
RECURSIVE TrimLeft(_, _)
TrimLeft(s, cutset) ==
    IF Len(s) > 0 /\ s[1] \in cutset THEN TrimLeft(Tail(s), cutset) ELSE s

RECURSIVE TrimRight(_, _)
TrimRight(s, cutset) ==
    IF Len(s) > 0 /\ s[Len(s)] \in cutset
    THEN TrimRight(SubSeq(s, 1, Len(s) - 1), cutset)
    ELSE s

Trim(s, cutset) == TrimRight(TrimLeft(s, cutset), cutset)

\* strings.Join(parts, sep)
RECURSIVE Join(_, _)
Join(parts, sep) ==
    IF Len(parts) = 0 THEN <<>>
    ELSE IF Len(parts) = 1 THEN parts[1]
    ELSE parts[1] \o sep \o Join(Tail(parts), sep)

\* the sequences over S of length at most n
SeqsUpTo(S, n) == UNION {[1..k -> S] : k \in 0..n}

-----------------------------------------------------------------------------
(* Router.                                                                 *)

\* a net.Conn nobody has closed, and no Body.Close() call made on it
OpenConn == [open |-> TRUE, bodyCloses |-> 0, wrote |-> "no", driverClosed |-> FALSE]

\* the zero sync.RWMutex
Unlocked == [writer |-> FALSE, readers |-> 0]

GET == <<"G", "E", "T">>
POST == <<"P", "O", "S", "T">>
Methods == {GET, POST}

\* a Handler is a function value: the model names the handler passed to the
\* i-th AddRoute call i, and the nil Handler 0
NilHandler == 0

\* a Go map[string]string or map[string]Handler is a function; a nil map reads
\* as the empty map
EmptyMap == <<>>

MapSet(m, k, v) == [x \in DOMAIN m \cup {k} |-> IF x = k THEN v ELSE m[x]]

\* &node{path: "/", part: "/"}
RootNode ==
    [path |-> <<"/">>, part |-> <<"/">>, children |-> <<>>,
     handlers |-> EmptyMap, isParam |-> FALSE]

\* &node{part: part, isParam: len(part) > 0 && part[0] == ':'}
NewChild(part) ==
    [path |-> <<>>, part |-> part, children |-> <<>>,
     handlers |-> EmptyMap, isParam |-> Len(part) > 0 /\ part[1] = ":"]

\* findOrCreateChild that never finds: it appends a new child every time
findOrCreateChildAlways(ns, n, part) ==
    [nodes |-> [Append(ns, NewChild(part)) EXCEPT
                   ![n].children = Append(ns[n].children, Len(ns) + 1)],
     child |-> Len(ns) + 1]

\* node.findOrCreateChild: the arena after the call and the child returned
findOrCreateChild(ns, n, part) ==
    LET kids == ns[n].children
        hits == {i \in 1..Len(kids) : ns[kids[i]].part = part}
    IN  IF hits # {}
        THEN [nodes |-> ns,
              child |-> kids[CHOOSE i \in hits : \A j \in hits : i <= j]]
        ELSE [nodes |-> [Append(ns, NewChild(part)) EXCEPT
                            ![n].children = Append(kids, Len(ns) + 1)],
              child |-> Len(ns) + 1]

\* the loop of node.insert without the break at a last, empty part
RECURSIVE insertWalkKeepEmpty(_, _, _, _)
insertWalkKeepEmpty(ns, n, parts, i) ==
    IF i > Len(parts) THEN [nodes |-> ns, node |-> n]
    ELSE LET r == findOrCreateChild(ns, n, parts[i])
         IN  insertWalkKeepEmpty(r.nodes, r.child, parts, i + 1)

\* the loop of node.insert over parts[i..]: the arena and the terminal node
RECURSIVE insertWalk(_, _, _, _)
insertWalk(ns, n, parts, i) ==
    IF i > Len(parts) THEN [nodes |-> ns, node |-> n]
    ELSE IF parts[i] = <<>> /\ i = Len(parts) THEN [nodes |-> ns, node |-> n]
    ELSE LET r == findOrCreateChild(ns, n, parts[i])
         IN  insertWalk(r.nodes, r.child, parts, i + 1)

\* node.insert: the arena after inserting (path, handler) under root n
insert(ns, n, path, handler, method) ==
    LET parts == Tail(Split(path, "/"))
        w == insertWalk(ns, n, parts, 1)
    IN  [w.nodes EXCEPT ![w.node].handlers = MapSet(@, method, handler)]

NotFound == [handler |-> NilHandler, params |-> EmptyMap]

\* matchChild without the parameter branch: only an equal part matches
matchChildLiteralOnly(ns, n, part) ==
    LET kids == ns[n].children
        hits == {i \in 1..Len(kids) : ns[kids[i]].part = part}
    IN  IF hits = {} THEN 0
        ELSE kids[CHOOSE i \in hits : \A j \in hits : i <= j]

\* matchChild that takes the first child whatever its part
matchChildFirst(ns, n, part) ==
    IF Len(ns[n].children) = 0 THEN 0 ELSE ns[n].children[1]

\* one level of node.search: the first child, in slice order, that is a
\* parameter node or whose part equals the segment; 0 when there is none
matchChild(ns, n, part) ==
    LET kids == ns[n].children
        hits == {i \in 1..Len(kids) :
                    ns[kids[i]].isParam \/ ns[kids[i]].part = part}
    IN  IF hits = {} THEN 0
        ELSE kids[CHOOSE i \in hits : \A j \in hits : i <= j]

\* the loop of node.search over parts[i..]: the node reached (0: none) and
\* the parameters captured
RECURSIVE searchWalk(_, _, _, _, _)
searchWalk(ns, n, parts, i, params) ==
    IF i > Len(parts) THEN [node |-> n, params |-> params]
    ELSE IF parts[i] = <<>> THEN searchWalk(ns, n, parts, i + 1, params)
    ELSE LET c == matchChild(ns, n, parts[i])
         IN  IF c = 0 THEN [node |-> 0, params |-> params]
             ELSE searchWalk(ns, c, parts, i + 1,
                     IF ns[c].isParam
                     THEN MapSet(params, Tail(ns[c].part), parts[i])
                     ELSE params)

\* node.search: the results the call can return (ranging over a map returns
\* its entries in an unspecified order, and search returns the first)
search(ns, n, path) ==
    LET parts == Split(Trim(path, {"/"}), "/")
        w == searchWalk(ns, n, parts, 1, EmptyMap)
    IN  IF w.node = 0 THEN {NotFound}
        ELSE IF DOMAIN ns[w.node].handlers # {}
        THEN {[handler |-> ns[w.node].handlers[k], params |-> w.params] :
                 k \in DOMAIN ns[w.node].handlers}
        ELSE {NotFound}

\* Router.FindHandler on a router (ns, ts): the results the call can return
FindHandlerIn(ns, ts, method, path) ==
    IF method \in DOMAIN ts THEN search(ns, ts[method], path) ELSE {NotFound}

\* the paths a run registers and the targets it looks up
Lits == {<<"a">>, <<"b">>}
Pars == {<<":", "x">>, <<":", "y">>}
MkPath(segs) == <<"/">> \o Join(segs, <<"/">>)
RoutePaths == {MkPath(s) : s \in SeqsUpTo(Lits \cup Pars, MaxSegs)}
Targets == {MkPath(s) : s \in SeqsUpTo(Lits, MaxSegs + 1)}

\* router.New
RouterInit ==
    /\ nodes = <<>>
    /\ trees = EmptyMap
    /\ routes = <<>>
    /\ found = <<>>
    /\ authored = <<>> /\ stream = <<>>
    /\ parsed = <<>> /\ parsedInternal = <<>> /\ bodyRead = <<>>
    /\ netConn = OpenConn
    /\ phase = "setup" /\ alive = TRUE /\ tasks = <<>>
    /\ built = <<>> /\ written = <<>>
    /\ mu = Unlocked /\ procs = <<>>

\* Router.AddRoute: the root of the method's tree made if missing, and the
\* insert under it
Register(method, path, handler) ==
    /\ LET ns == IF method \in DOMAIN trees THEN nodes ELSE Append(nodes, RootNode)
           ts == IF method \in DOMAIN trees THEN trees
                 ELSE MapSet(trees, method, Len(nodes) + 1)
       IN  /\ nodes' = insert(ns, ts[method], path, handler, method)
           /\ trees' = ts
    /\ routes' = Append(routes, <<method, path, handler>>)
    /\ found' = <<>>
    /\ UNCHANGED parseVars
    /\ UNCHANGED serverVars
    /\ UNCHANGED <<responseVars, lockVars>>

\* Router.AddRoute, for the routes an application registers
AddRoute(method, path, handler) ==
    /\ Len(routes) < MaxRoutes
    /\ Register(method, path, handler)

\* Router.FindHandler
FindHandler(method, path) ==
    /\ \E r \in FindHandlerIn(nodes, trees, method, path) :
          found' = <<[method |-> method, path |-> path, result |-> r]>>
    /\ UNCHANGED <<nodes, trees, routes>>
    /\ UNCHANGED parseVars
    /\ UNCHANGED serverVars
    /\ UNCHANGED <<responseVars, lockVars>>

RouterNext ==
    \/ \E m \in Methods, p \in RoutePaths : AddRoute(m, p, Len(routes) + 1)
    \/ \E m \in Methods, t \in Targets : FindHandler(m, t)

SpecRouter == RouterInit /\ [][RouterNext]_vars

\* Registering a path again: longer runs of AddRoute over fewer paths.
MaxRegistrations == 3
OverwritePaths ==
    {MkPath(<<<<"a">>>>), MkPath(<<<<":", "x">>>>),
     MkPath(<<<<"a">>, <<":", "x">>>>), MkPath(<<<<"a">>, <<"b">>>>)}

\* Router.AddRoute, for an application that registers paths again
ReRegister(method, path, handler) ==
    /\ Len(routes) < MaxRegistrations
    /\ Register(method, path, handler)

OverwriteNext ==
    \/ \E m \in Methods, path \in OverwritePaths : ReRegister(m, path, Len(routes) + 1)
    \/ \E m \in Methods, path \in OverwritePaths : FindHandler(m, path)

SpecOverwrite == RouterInit /\ [][OverwriteNext]_vars

\* Paths with and without a trailing slash, and the root path.
SlashPaths ==
    {<<"/">>, <<"/", "a">>, <<"/", "a", "/">>, <<"/", "a", "/", "b">>,
     <<"/", "a", "/", "b", "/">>, <<"/", ":", "x">>, <<"/", ":", "x", "/">>}

SlashNext ==
    \/ \E m \in Methods, path \in SlashPaths : AddRoute(m, path, Len(routes) + 1)
    \/ \E m \in Methods, path \in SlashPaths : FindHandler(m, path)

SpecTrailingSlash == RouterInit /\ [][SlashNext]_vars

-----------------------------------------------------------------------------
(* Router under concurrent callers: Router.mu around AddRoute, FindHandler. *)

\* the goroutines that call the router
MaxProcs == 3
Procs == 1..MaxProcs

\* the paths they register and the target they look up
ConcPaths == {MkPath(<<<<"a">>>>), MkPath(<<<<":", "x">>>>)}
ConcTargets == {MkPath(<<<<"a">>>>)}

IdleProc ==
    [pc |-> "idle", op |-> "", method |-> <<>>, path |-> <<>>,
     handler |-> NilHandler, root |-> 0, raced |-> FALSE, result |-> <<>>,
     lo |-> 0, hi |-> 0]

\* the goroutine is between its Lock or RLock and its deferred unlock
InCS(q) == q.pc \in {"in1", "in2", "unlock"}

\* the AddRoute calls made and not yet returned
PendingAdds == {q \in Procs : procs[q].op = "add" /\ procs[q].pc # "idle"}

\* an AddRoute by another goroutine is between its Lock and its Unlock: a
\* read of trees or of a node now is a data race
Racing(p) == \E q \in Procs \ {p} : procs[q].op = "add" /\ InCS(procs[q])

\* what a racing read of the tree can make FindHandler return
RacyResults ==
    {NotFound} \cup {[handler |-> h, params |-> EmptyMap] : h \in 1..MaxRoutes}

ConcInit ==
    /\ nodes = <<>> /\ trees = EmptyMap /\ routes = <<>> /\ found = <<>>
    /\ mu = Unlocked
    /\ procs = [p \in Procs |-> IdleProc]
    /\ authored = <<>> /\ stream = <<>>
    /\ parsed = <<>> /\ parsedInternal = <<>> /\ bodyRead = <<>>
    /\ netConn = OpenConn
    /\ phase = "setup" /\ alive = TRUE /\ tasks = <<>>
    /\ built = <<>> /\ written = <<>>

\* a goroutine calls r.AddRoute(method, path, handler)
CallAddRoute(p, method, path) ==
    /\ procs[p].pc = "idle"
    /\ Len(routes) + Cardinality(PendingAdds) < MaxRoutes
    /\ procs' = [procs EXCEPT ![p] =
                    [IdleProc EXCEPT !.pc = "lock", !.op = "add", !.method = method,
                                     !.path = path,
                                     !.handler = Len(routes) + Cardinality(PendingAdds) + 1]]
    /\ UNCHANGED <<mu, routerVars, parseVars, serverVars, responseVars>>

\* a goroutine calls r.FindHandler(method, path)
CallFindHandler(p, method, path) ==
    /\ procs[p].pc = "idle"
    /\ procs' = [procs EXCEPT ![p] =
                    [IdleProc EXCEPT !.pc = "lock", !.op = "find", !.method = method,
                                     !.path = path, !.lo = Len(routes)]]
    /\ UNCHANGED <<mu, routerVars, parseVars, serverVars, responseVars>>

\* sync.RWMutex: Lock returns when no goroutine holds the lock
LockGuard(m) == ~m.writer /\ m.readers = 0

\* an RLock that never waits
RLockGuardNone(m) == TRUE

\* sync.RWMutex: RLock returns when no writer holds the lock
RLockGuard(m) == ~m.writer

\* AddRoute: r.mu.Lock()
Lock(p) ==
    /\ procs[p].pc = "lock" /\ procs[p].op = "add"
    /\ LockGuard(mu)
    /\ mu' = [mu EXCEPT !.writer = TRUE]
    /\ procs' = [procs EXCEPT ![p].pc = "in1"]
    /\ UNCHANGED <<routerVars, parseVars, serverVars, responseVars>>

\* FindHandler: r.mu.RLock()
RLock(p) ==
    /\ procs[p].pc = "lock" /\ procs[p].op = "find"
    /\ RLockGuard(mu)
    /\ mu' = [mu EXCEPT !.readers = @ + 1]
    /\ procs' = [procs EXCEPT ![p].pc = "in1"]
    /\ UNCHANGED <<routerVars, parseVars, serverVars, responseVars>>

\* AddRoute: if r.trees[method] == nil { r.trees[method] = &node{...} }
EnsureRoot(p) ==
    /\ procs[p].pc = "in1" /\ procs[p].op = "add"
    /\ IF procs[p].method \in DOMAIN trees
       THEN UNCHANGED <<nodes, trees>>
       ELSE /\ nodes' = Append(nodes, RootNode)
            /\ trees' = MapSet(trees, procs[p].method, Len(nodes) + 1)
    /\ procs' = [procs EXCEPT ![p].pc = "in2"]
    /\ UNCHANGED <<routes, found, mu, parseVars, serverVars, responseVars>>

\* AddRoute: r.trees[method].insert(path, handler, method)
Insert(p) ==
    /\ procs[p].pc = "in2" /\ procs[p].op = "add"
    /\ nodes' = insert(nodes, trees[procs[p].method], procs[p].path,
                       procs[p].handler, procs[p].method)
    /\ routes' = Append(routes, <<procs[p].method, procs[p].path, procs[p].handler>>)
    /\ procs' = [procs EXCEPT ![p].pc = "unlock"]
    /\ UNCHANGED <<trees, found, mu, parseVars, serverVars, responseVars>>

\* FindHandler: root := r.trees[method]
ReadRoot(p) ==
    /\ procs[p].pc = "in1" /\ procs[p].op = "find"
    /\ procs' = [procs EXCEPT
                    ![p].pc = "in2",
                    ![p].raced = Racing(p),
                    ![p].root = IF procs[p].method \in DOMAIN trees
                                THEN trees[procs[p].method] ELSE 0]
    /\ UNCHANGED <<mu, routerVars, parseVars, serverVars, responseVars>>

\* FindHandler: return root.search(path), or nil, nil for a nil root
Search(p) ==
    /\ procs[p].pc = "in2" /\ procs[p].op = "find"
    /\ \E r \in (IF procs[p].raced \/ Racing(p) THEN RacyResults
                  ELSE IF procs[p].root = 0 THEN {NotFound}
                  ELSE search(nodes, procs[p].root, procs[p].path)) :
          procs' = [procs EXCEPT ![p].pc = "unlock", ![p].result = <<r>>]
    /\ UNCHANGED <<mu, routerVars, parseVars, serverVars, responseVars>>

\* AddRoute: the deferred r.mu.Unlock(), and the return
Unlock(p) ==
    /\ procs[p].pc = "unlock" /\ procs[p].op = "add"
    /\ mu' = [mu EXCEPT !.writer = FALSE]
    /\ procs' = [procs EXCEPT ![p].pc = "idle"]
    /\ UNCHANGED <<routerVars, parseVars, serverVars, responseVars>>

\* FindHandler: the deferred r.mu.RUnlock(), and the return
RUnlock(p) ==
    /\ procs[p].pc = "unlock" /\ procs[p].op = "find"
    /\ mu' = [mu EXCEPT !.readers = @ - 1]
    /\ procs' = [procs EXCEPT ![p].pc = "idle", ![p].hi = Len(routes)]
    /\ UNCHANGED <<routerVars, parseVars, serverVars, responseVars>>

ConcNext ==
    \E p \in Procs :
        \/ \E m \in Methods, path \in ConcPaths : CallAddRoute(p, m, path)
        \/ \E path \in ConcTargets : CallFindHandler(p, GET, path)
        \/ Lock(p)
        \/ RLock(p)
        \/ EnsureRoot(p)
        \/ Insert(p)
        \/ ReadRoot(p)
        \/ Search(p)
        \/ Unlock(p)
        \/ RUnlock(p)

SpecConcurrentRouter == ConcInit /\ [][ConcNext]_vars

-----------------------------------------------------------------------------
(* Request parser: request.Parse, and the older internal/request.Parse.    *)

\* unicode.IsSpace, over the bytes of the model
WhiteSpace == {SP, TAB, CR, LF}

\* strings.TrimSpace
TrimSpace(s) == Trim(s, WhiteSpace)

\* strings.SplitN(s, sep, 2) for a one-byte separator
SplitN2(s, c) ==
    LET k == IndexByte(s, c)
    IN  IF k = 0 THEN <<s>>
        ELSE <<SubSeq(s, 1, k - 1), SubSeq(s, k + 1, Len(s))>>

Digits == {"0", "1", "2", "3", "4", "5", "6", "7", "8", "9"}
DigitVal(c) == CHOOSE v \in 0..9 : <<"0", "1", "2", "3", "4", "5", "6", "7", "8", "9">>[v + 1] = c

RECURSIVE DecVal(_)
DecVal(s) ==
    IF Len(s) = 0 THEN 0
    ELSE 10 * DecVal(SubSeq(s, 1, Len(s) - 1)) + DigitVal(s[Len(s)])

\* strconv.ParseInt(s, 10, 64) and strconv.Atoi(s): an optional sign, then
\* one or more digits (the values of the model stay far below the range limit)
ParseInt(s) ==
    LET signed == Len(s) > 0 /\ s[1] \in {"+", "-"}
        ds == IF signed THEN Tail(s) ELSE s
    IN  IF Len(ds) = 0 \/ \E i \in 1..Len(ds) : ds[i] \notin Digits
        THEN [ok |-> FALSE, val |-> 0]
        ELSE [ok |-> TRUE,
              val |-> IF signed /\ s[1] = "-" THEN 0 - DecVal(ds) ELSE DecVal(ds)]

\* strconv.Itoa
RECURSIVE Itoa(_)
Itoa(n) ==
    IF n < 0 THEN <<"-">> \o Itoa(0 - n)
    ELSE IF n < 10 THEN <<<<"0", "1", "2", "3", "4", "5", "6", "7", "8", "9">>[n + 1]>>
    ELSE Itoa(n \div 10) \o Itoa(n % 10)

\* error values
NoErr == [type |-> "nil"]
ErrEOF == [type |-> "io.EOF"]
ErrMalformedLine == [type |-> "errors.errorString", msg |-> "malformed request line"]
\* &ParseError{StatusCode: code, Msg: msg}
ParseError(code, msg) == [type |-> "*request.ParseError", StatusCode |-> code, Msg |-> msg]

ContentLength == <<"C", "o", "n", "t", "e", "n", "t", "-", "L", "e", "n", "g", "t", "h">>

\* bufio.Reader.ReadLine on the unread bytes r of a stream that ends with EOF,
\* for lines shorter than the reader's buffer: the line without its end-of-line
\* bytes, the error and the bytes left unread
ReadLine(r) ==
    LET k == IndexByte(r, LF)
    IN  IF Len(r) = 0 THEN [line |-> <<>>, err |-> ErrEOF, rest |-> <<>>]
        ELSE IF k = 0 THEN [line |-> r, err |-> NoErr, rest |-> <<>>]
        ELSE [line |-> IF k > 1 /\ r[k - 1] = CR THEN SubSeq(r, 1, k - 2)
                       ELSE SubSeq(r, 1, k - 1),
              err |-> NoErr,
              rest |-> SubSeq(r, k + 1, Len(r))]

\* bufio.Reader.ReadString('\n'): the bytes up to and including the delimiter,
\* or what is left and EOF
ReadString(r) ==
    LET k == IndexByte(r, LF)
    IN  IF k = 0 THEN [line |-> r, err |-> ErrEOF, rest |-> <<>>]
        ELSE [line |-> SubSeq(r, 1, k), err |-> NoErr,
              rest |-> SubSeq(r, k + 1, Len(r))]

\* parseRequestLine rejecting only lines of fewer than three parts
parseRequestLineAtLeast3(r) ==
    LET l == ReadLine(r)
        parts == Split(l.line, SP)
    IN  IF l.err # NoErr THEN [err |-> l.err, parts |-> <<>>, rest |-> l.rest]
        ELSE IF Len(parts) < 3
        THEN [err |-> ErrMalformedLine, parts |-> <<>>, rest |-> l.rest]
        ELSE [err |-> NoErr, parts |-> parts, rest |-> l.rest]

\* request.parseRequestLine
parseRequestLine(r) ==
    LET l == ReadLine(r)
        parts == Split(l.line, SP)
    IN  IF l.err # NoErr THEN [err |-> l.err, parts |-> <<>>, rest |-> l.rest]
        ELSE IF Len(parts) # 3
        THEN [err |-> ErrMalformedLine, parts |-> <<>>, rest |-> l.rest]
        ELSE [err |-> NoErr, parts |-> parts, rest |-> l.rest]

\* parseHeaders recording name and value untrimmed
RECURSIVE parseHeadersNoTrim(_, _)
parseHeadersNoTrim(r, hs) ==
    LET l == ReadLine(r)
        parts == SplitN2(l.line, ":")
    IN  IF l.err # NoErr THEN [err |-> l.err, headers |-> hs, rest |-> l.rest]
        ELSE IF Len(l.line) = 0 THEN [err |-> NoErr, headers |-> hs, rest |-> l.rest]
        ELSE IF Len(parts) # 2 THEN parseHeadersNoTrim(l.rest, hs)
        ELSE parseHeadersNoTrim(l.rest, MapSet(hs, parts[1], parts[2]))

\* parseHeaders ending the header block at a line without a colon
RECURSIVE parseHeadersStopAtMalformed(_, _)
parseHeadersStopAtMalformed(r, hs) ==
    LET l == ReadLine(r)
        parts == SplitN2(l.line, ":")
    IN  IF l.err # NoErr THEN [err |-> l.err, headers |-> hs, rest |-> l.rest]
        ELSE IF Len(l.line) = 0 THEN [err |-> NoErr, headers |-> hs, rest |-> l.rest]
        ELSE IF Len(parts) # 2 THEN [err |-> NoErr, headers |-> hs, rest |-> l.rest]
        ELSE parseHeadersStopAtMalformed(l.rest,
                 MapSet(hs, TrimSpace(parts[1]), TrimSpace(parts[2])))

\* parseHeaders keeping the first line of a name and dropping later ones
RECURSIVE parseHeadersFirstWins(_, _)
parseHeadersFirstWins(r, hs) ==
    LET l == ReadLine(r)
        parts == SplitN2(l.line, ":")
    IN  IF l.err # NoErr THEN [err |-> l.err, headers |-> hs, rest |-> l.rest]
        ELSE IF Len(l.line) = 0 THEN [err |-> NoErr, headers |-> hs, rest |-> l.rest]
        ELSE IF Len(parts) # 2 THEN parseHeadersFirstWins(l.rest, hs)
        ELSE parseHeadersFirstWins(l.rest,
                 IF TrimSpace(parts[1]) \in DOMAIN hs THEN hs
                 ELSE MapSet(hs, TrimSpace(parts[1]), TrimSpace(parts[2])))

\* request.parseHeaders, from unread bytes r with the headers hs read so far
RECURSIVE parseHeaders(_, _)
parseHeaders(r, hs) ==
    LET l == ReadLine(r)
        parts == SplitN2(l.line, ":")
    IN  IF l.err # NoErr THEN [err |-> l.err, headers |-> hs, rest |-> l.rest]
        ELSE IF Len(l.line) = 0 THEN [err |-> NoErr, headers |-> hs, rest |-> l.rest]
        ELSE IF Len(parts) # 2 THEN parseHeaders(l.rest, hs)
        ELSE parseHeaders(l.rest,
                 MapSet(hs, TrimSpace(parts[1]), TrimSpace(parts[2])))

\* a map read m[k] of a map[string]string: "" for a missing key
MapGet(m, k) == IF k \in DOMAIN m THEN m[k] ELSE <<>>

\* a body reader whose limit is one byte more than Content-Length
bodyReaderOneMore(headers) ==
    LET n == ParseInt(MapGet(headers, ContentLength))
    IN  IF n.ok /\ n.val > 0 THEN [kind |-> "limit", n |-> n.val + 1]
        ELSE [kind |-> "empty", n |-> 0]

\* the body reader request.Parse builds: io.LimitReader(reader, n) when
\* Content-Length parses to n > 0, strings.NewReader("") otherwise
bodyReader(headers) ==
    LET n == ParseInt(MapGet(headers, ContentLength))
    IN  IF n.ok /\ n.val > 0 THEN [kind |-> "limit", n |-> n.val]
        ELSE [kind |-> "empty", n |-> 0]

\* request.Parse on a connection that delivers the bytes conn and then EOF:
\* the error, the *Request (<<>> for nil) and the bytes left in the reader
Parse(conn) ==
    LET l == parseRequestLine(conn)
        h == parseHeaders(l.rest, EmptyMap)
    IN  IF l.err # NoErr THEN [err |-> l.err, req |-> <<>>, rest |-> l.rest]
        ELSE IF h.err # NoErr THEN [err |-> h.err, req |-> <<>>, rest |-> h.rest]
        ELSE [err |-> NoErr,
              req |-> <<[Method |-> l.parts[1], Target |-> l.parts[2],
                         Version |-> l.parts[3], Headers |-> h.headers,
                         PathParams |-> EmptyMap,
                         Body |-> bodyReader(h.headers)]>>,
              rest |-> h.rest]

\* io.ReadAll(req.Body): the bytes read and the bytes left in the reader
ReadAll(body, rest) ==
    LET n == IF body.kind = "limit"
             THEN (IF body.n < Len(rest) THEN body.n ELSE Len(rest))
             ELSE 0
    IN  [bytes |-> SubSeq(rest, 1, n), rest |-> SubSeq(rest, n + 1, Len(rest))]

\* internal/request.parseRequestLine
parseRequestLineInternal(r) ==
    LET l == ReadString(r)
        parts == Split(TrimSpace(l.line), SP)
    IN  IF l.err # NoErr
        THEN [err |-> ParseError(400, "failed to read request line"),
              parts |-> <<>>, rest |-> l.rest]
        ELSE IF Len(parts) # 3
        THEN [err |-> ParseError(400, "malformed request line"),
              parts |-> <<>>, rest |-> l.rest]
        ELSE [err |-> NoErr, parts |-> parts, rest |-> l.rest]

\* internal/request.parseHeaders
RECURSIVE parseHeadersInternal(_, _)
parseHeadersInternal(r, hs) ==
    LET l == ReadString(r)
        line == TrimSpace(l.line)
        parts == SplitN2(line, ":")
    IN  IF l.err # NoErr
        THEN [err |-> ParseError(400, "failed to read header line"),
              headers |-> EmptyMap, rest |-> l.rest]
        ELSE IF line = <<>> THEN [err |-> NoErr, headers |-> hs, rest |-> l.rest]
        ELSE IF Len(parts) # 2 THEN parseHeadersInternal(l.rest, hs)
        ELSE parseHeadersInternal(l.rest,
                 MapSet(hs, TrimSpace(parts[1]), TrimSpace(parts[2])))

\* internal/request.parseBody: make([]byte, n) with n < 0 is a run-time panic
parseBodyInternal(r, headers) ==
    LET n == ParseInt(MapGet(headers, ContentLength))
    IN  IF ContentLength \notin DOMAIN headers
        THEN [err |-> NoErr, panic |-> FALSE, body |-> <<>>]
        ELSE IF ~n.ok
        THEN [err |-> ParseError(400, "invalid Content-Length value"),
              panic |-> FALSE, body |-> <<>>]
        ELSE IF n.val = 0 THEN [err |-> NoErr, panic |-> FALSE, body |-> <<>>]
        ELSE IF n.val < 0 THEN [err |-> NoErr, panic |-> TRUE, body |-> <<>>]
        ELSE IF Len(r) < n.val
        THEN [err |-> ParseError(400, "failed to read full request body"),
              panic |-> FALSE, body |-> <<>>]
        ELSE [err |-> NoErr, panic |-> FALSE, body |-> SubSeq(r, 1, n.val)]

\* internal/request.Parse
ParseInternal(conn) ==
    LET l == parseRequestLineInternal(conn)
        h == parseHeadersInternal(l.rest, EmptyMap)
        b == parseBodyInternal(h.rest, h.headers)
    IN  IF l.err # NoErr THEN [err |-> l.err, panic |-> FALSE, req |-> <<>>]
        ELSE IF h.err # NoErr THEN [err |-> h.err, panic |-> FALSE, req |-> <<>>]
        ELSE IF b.panic THEN [err |-> NoErr, panic |-> TRUE, req |-> <<>>]
        ELSE IF b.err # NoErr THEN [err |-> b.err, panic |-> FALSE, req |-> <<>>]
        ELSE [err |-> NoErr, panic |-> FALSE,
              req |-> <<[Method |-> l.parts[1], Target |-> l.parts[2],
                         Version |-> l.parts[3], Headers |-> h.headers,
                         Body |-> b.body]>>]

\* the messages a client composes: a request line of tokens joined by single
\* spaces, header lines, the blank line and a body, cut short where the
\* client stops sending
HTTP11 == <<"H", "T", "T", "P", "/", "1", ".", "1">>
Tokens == {<<>>, GET, <<"/">>, HTTP11}
TokenSeqs == UNION {[1..k -> Tokens] : k \in 1..MaxTokens}

Host == <<"H", "o", "s", "t">>
\* a header line is name ":" value, or name alone when it has no colon
HeaderItems ==
    { [name |-> Host, value |-> <<SP, "x">>, colon |-> TRUE],
      [name |-> Host, value |-> <<SP, SP, "y", SP>>, colon |-> TRUE],
      [name |-> <<SP, "A", SP>>, value |-> <<"b", ":", "c">>, colon |-> TRUE],
      [name |-> <<"H", SP, "x">>, value |-> <<>>, colon |-> FALSE],
      [name |-> ContentLength, value |-> <<SP, "2">>, colon |-> TRUE],
      [name |-> ContentLength, value |-> <<SP, "0">>, colon |-> TRUE],
      [name |-> ContentLength, value |-> <<SP, "z", "z">>, colon |-> TRUE],
      [name |-> ContentLength, value |-> <<SP, "-", "1">>, colon |-> TRUE] }

BodyText == <<"p", LF, "q", "r", "s", "t">>
Bodies == {SubSeq(BodyText, 1, n) : n \in 0..MaxBody}

CRLF == <<CR, LF>>

Authored ==
    [tokens : TokenSeqs, headers : {<<>>}, ends : {"body", "line"},
     body : {<<>>}, eol : {CRLF}]
    \cup
    [tokens : {<<GET, <<"/">>, HTTP11>>}, headers : SeqsUpTo(HeaderItems, MaxHeaders),
     ends : {"body", "headers"}, body : Bodies, eol : {CRLF, <<LF>>}]
    \cup
    [tokens : {<<GET>>}, headers : {<<>>}, ends : {"nothing"},
     body : {<<>>}, eol : {CRLF}]

HeaderLine(item) ==
    IF item.colon THEN item.name \o <<":">> \o item.value ELSE item.name

RECURSIVE HeaderBlock(_, _)
HeaderBlock(items, eol) ==
    IF Len(items) = 0 THEN <<>>
    ELSE HeaderLine(items[1]) \o eol \o HeaderBlock(Tail(items), eol)

RequestLine(a) == Join(a.tokens, <<SP>>)

\* the bytes of a composed message that reach the server
Wire(a) ==
    IF a.ends = "nothing" THEN <<>>
    ELSE IF a.ends = "line" THEN RequestLine(a)
    ELSE IF a.ends = "headers"
    THEN RequestLine(a) \o a.eol \o HeaderBlock(a.headers, a.eol)
    ELSE RequestLine(a) \o a.eol \o HeaderBlock(a.headers, a.eol) \o a.eol \o a.body

ParseInit ==
    /\ authored \in Authored
    /\ stream = Wire(authored)
    /\ parsed = <<>> /\ parsedInternal = <<>> /\ bodyRead = <<>>
    /\ netConn = OpenConn
    /\ nodes = <<>> /\ trees = EmptyMap /\ routes = <<>> /\ found = <<>>
    /\ phase = "setup" /\ alive = TRUE /\ tasks = <<>>
    /\ built = <<>> /\ written = <<>>
    /\ mu = Unlocked /\ procs = <<>>

\* a call of request.Parse
DoParse ==
    /\ parsed = <<>>
    /\ parsed' = <<Parse(stream)>>
    /\ UNCHANGED <<authored, stream, parsedInternal, bodyRead, netConn>>
    /\ UNCHANGED routerVars
    /\ UNCHANGED serverVars
    /\ UNCHANGED <<responseVars, lockVars>>

\* a call of internal/request.Parse on the same bytes
DoParseInternal ==
    /\ parsedInternal = <<>>
    /\ parsedInternal' = <<ParseInternal(stream)>>
    /\ UNCHANGED <<authored, stream, parsed, bodyRead, netConn>>
    /\ UNCHANGED routerVars
    /\ UNCHANGED serverVars
    /\ UNCHANGED <<responseVars, lockVars>>

\* io.ReadAll(req.Body) on the request Parse returned
ReadBody ==
    /\ parsed # <<>> /\ parsed[1].err = NoErr
    /\ bodyRead = <<>>
    /\ LET r == ReadAll(parsed[1].req[1].Body, parsed[1].rest)
       IN  /\ bodyRead' = <<r.bytes>>
           /\ parsed' = <<[parsed[1] EXCEPT !.rest = r.rest]>>
    /\ UNCHANGED <<authored, stream, parsedInternal, netConn>>
    /\ UNCHANGED routerVars
    /\ UNCHANGED serverVars
    /\ UNCHANGED <<responseVars, lockVars>>

\* the Body.Close() calls a handler makes on one request
MaxBodyCloses == 2

\* a bodyReader.Close that closes its closer, the connection
bodyReaderCloseCloser(c) == [c EXCEPT !.open = FALSE]

\* bodyReader.Close: return nil, the closer left alone
bodyReaderClose(c) == c

\* req.Body.Close() on the request Parse returned
CloseBody ==
    /\ parsed # <<>> /\ parsed[1].err = NoErr
    /\ netConn.bodyCloses < MaxBodyCloses
    /\ netConn' = [bodyReaderClose(netConn) EXCEPT !.bodyCloses = @ + 1]
    /\ UNCHANGED <<authored, stream, parsed, parsedInternal, bodyRead>>
    /\ UNCHANGED routerVars
    /\ UNCHANGED serverVars
    /\ UNCHANGED <<responseVars, lockVars>>

\* the driver's resp.Write(conn): a closed connection fails the write
DriverWrite ==
    /\ parsed # <<>>
    /\ netConn.wrote = "no" /\ ~netConn.driverClosed
    /\ netConn' = [netConn EXCEPT !.wrote = IF netConn.open THEN "ok" ELSE "failed"]
    /\ UNCHANGED <<authored, stream, parsed, parsedInternal, bodyRead>>
    /\ UNCHANGED routerVars
    /\ UNCHANGED serverVars
    /\ UNCHANGED <<responseVars, lockVars>>

\* the driver's deferred conn.Close()
DriverClose ==
    /\ parsed # <<>>
    /\ ~netConn.driverClosed
    /\ netConn' = [netConn EXCEPT !.open = FALSE, !.driverClosed = TRUE]
    /\ UNCHANGED <<authored, stream, parsed, parsedInternal, bodyRead>>
    /\ UNCHANGED routerVars
    /\ UNCHANGED serverVars
    /\ UNCHANGED <<responseVars, lockVars>>

ParseNext ==
    \/ DoParse
    \/ DoParseInternal
    \/ ReadBody
    \/ CloseBody
    \/ DriverWrite
    \/ DriverClose

SpecParse == ParseInit /\ [][ParseNext]_vars

-----------------------------------------------------------------------------
(* Responses: package response, and the errors of package httperrors.      *)

\* &HTTPError{StatusCode: code, Message: message}
HTTPError(code, message) ==
    [type |-> "*httperrors.HTTPError", StatusCode |-> code, Message |-> message]

\* a not-found error whose message does not name the resource
NewNotFoundUnnamed(resource) ==
    HTTPError(404, <<"n", "o", "t", SP, "f", "o", "u", "n", "d">>)

\* httperrors.NewNotFound
NewNotFound(resource) ==
    HTTPError(404, <<"R", "e", "s", "o", "u", "r", "c", "e", SP, "'">> \o resource \o <<"'", SP, "n", "o", "t", SP, "f", "o", "u", "n", "d">>)

\* httperrors.NewBadRequest
NewBadRequest(message) == HTTPError(400, message)

\* httperrors.NewInternalServerError
NewInternalServerError(message) == HTTPError(500, message)

\* the statusText table; "" for a code it does not hold
statusText(code) ==
    CASE code = 200 -> <<"O", "K">>
      [] code = 201 -> <<"C", "r", "e", "a", "t", "e", "d">>
      [] code = 400 -> <<"B", "a", "d", SP, "R", "e", "q", "u", "e", "s", "t">>
      [] code = 404 -> <<"N", "o", "t", SP, "F", "o", "u", "n", "d">>
      [] code = 500 -> <<"I", "n", "t", "e", "r", "n", "a", "l", SP, "S", "e", "r", "v", "e", "r", SP, "E", "r", "r", "o", "r">>
      [] OTHER -> <<>>

ContentType == <<"C", "o", "n", "t", "e", "n", "t", "-", "T", "y", "p", "e">>
TextPlain == <<"t", "e", "x", "t", "/", "p", "l", "a", "i", "n", ";", SP, "c", "h", "a", "r", "s", "e", "t", "=", "u", "t", "f", "-", "8">>

\* response.New
NewResponse(statusCode, body) ==
    [StatusCode |-> statusCode, StatusText |-> statusText(statusCode),
     Headers |-> EmptyMap, Body |-> body]

\* response.Text
Text(statusCode, text) ==
    [NewResponse(statusCode, text) EXCEPT
        !.Headers = MapSet(MapSet(@, ContentType, TextPlain),
                           ContentLength, Itoa(Len(text)))]

\* response.Error
Error(err) ==
    IF err.type = "*httperrors.HTTPError"
    THEN Text(err.StatusCode, err.Message)
    ELSE Text(500, <<"I", "n", "t", "e", "r", "n", "a", "l", SP, "S", "e", "r", "v", "e", "r", SP, "E", "r", "r", "o", "r">>)

\* the orders in which a range over a map can visit the keys S
Orders(S) ==
    {f \in [1..Cardinality(S) -> S] : \A i, j \in 1..Cardinality(S) : f[i] = f[j] => i = j}

RECURSIVE HeaderBytes(_, _)
HeaderBytes(headers, order) ==
    IF Len(order) = 0 THEN <<>>
    ELSE order[1] \o <<":", SP>> \o headers[order[1]] \o CRLF
         \o HeaderBytes(headers, Tail(order))

\* Response.Write that leaves out the blank line after the headers
WriteBytesNoBlankLine(r) ==
    { <<"H", "T", "T", "P", "/", "1", ".", "1", SP>> \o Itoa(r.StatusCode) \o <<SP>> \o r.StatusText \o CRLF
      \o HeaderBytes(r.Headers, order) \o r.Body :
          order \in Orders(DOMAIN r.Headers) }

\* Response.Write: the byte sequences the call can hand to the connection
WriteBytes(r) ==
    { <<"H", "T", "T", "P", "/", "1", ".", "1", SP>> \o Itoa(r.StatusCode) \o <<SP>> \o r.StatusText \o CRLF
      \o HeaderBytes(r.Headers, order) \o CRLF \o r.Body :
          order \in Orders(DOMAIN r.Headers) }

\* the errors of a connection's Write and of a body's Read
ErrWrite == [type |-> "*net.OpError", msg |-> "write"]
ErrRead == [type |-> "errors.errorString", msg |-> "read"]

\* an io.Writer that has taken the bytes out and, when it fails, takes room
\* more bytes before its Write returns an error
Writer(out, fails, room) == [out |-> out, fails |-> fails, room |-> room]

\* w.Write(p) of the io.Writer under the bufio.Writer
wWrite(w, p) ==
    IF ~w.fails THEN [w |-> [w EXCEPT !.out = @ \o p], n |-> Len(p), err |-> NoErr]
    ELSE IF Len(p) <= w.room
    THEN [w |-> [w EXCEPT !.out = @ \o p, !.room = @ - Len(p)], n |-> Len(p), err |-> NoErr]
    ELSE [w |-> [w EXCEPT !.out = @ \o SubSeq(p, 1, w.room), !.room = 0],
          n |-> w.room, err |-> ErrWrite]

\* bufio.NewWriter(w)
NewWriter(w) == [buf |-> <<>>, err |-> NoErr, wr |-> w]

\* bufio.Writer.Flush: the error of a failed write stays in the writer
Flush(b) ==
    IF b.err # NoErr \/ Len(b.buf) = 0 THEN b
    ELSE LET r == wWrite(b.wr, b.buf)
         IN  IF r.err # NoErr
             THEN [buf |-> SubSeq(b.buf, r.n + 1, Len(b.buf)), err |-> r.err, wr |-> r.w]
             ELSE [buf |-> <<>>, err |-> NoErr, wr |-> r.w]

\* bufio.Writer.Write, as fmt.Fprintf, WriteString and io.Copy call it: p goes
\* to the buffer, which is flushed each time it is full; a p longer than an
\* empty buffer goes to the writer directly; nothing happens after an error
RECURSIVE bufWrite(_, _)
bufWrite(b, p) ==
    IF b.err # NoErr THEN b
    ELSE IF Len(p) <= BufSize - Len(b.buf) THEN [b EXCEPT !.buf = @ \o p]
    ELSE IF Len(b.buf) = 0
    THEN LET r == wWrite(b.wr, p)
         IN  [b EXCEPT !.wr = r.w, !.err = r.err]
    ELSE LET avail == BufSize - Len(b.buf)
         IN  bufWrite(Flush([b EXCEPT !.buf = @ \o SubSeq(p, 1, avail)]),
                      SubSeq(p, avail + 1, Len(p)))

\* Response.Write: the loop of one fmt.Fprintf for each header
RECURSIVE writeHeaders(_, _, _)
writeHeaders(b, headers, order) ==
    IF Len(order) = 0 THEN b
    ELSE writeHeaders(bufWrite(b, order[1] \o <<":", SP>> \o headers[order[1]] \o CRLF),
                      headers, Tail(order))

\* the status line Response.Write formats
StatusLine(r) ==
    <<"H", "T", "T", "P", "/", "1", ".", "1", SP>> \o Itoa(r.StatusCode) \o <<SP>> \o r.StatusText \o CRLF

\* a Response.Write that ends with "return nil" after its Flush
ResponseWriteIgnoreFlush(r, order, w, readErr) ==
    LET head == bufWrite(writeHeaders(bufWrite(NewWriter(w), StatusLine(r)), r.Headers, order), CRLF)
        copied == bufWrite(head, r.Body)
        copyErr == IF copied.err # NoErr THEN copied.err
                   ELSE IF readErr THEN ErrRead ELSE NoErr
    IN  IF copyErr # NoErr THEN [w |-> copied.wr, err |-> copyErr]
        ELSE [w |-> Flush(copied).wr, err |-> NoErr]

\* Response.Write(w), ranging over the headers in order, on a writer w that
\* can fail, with a body whose Read ends with an error (readErr) or with
\* io.EOF: the writer afterwards and the error returned.  The results of the
\* Fprintf and WriteString calls are dropped; io.Copy's error is returned
\* before the Flush, and else the Flush's.
ResponseWrite(r, order, w, readErr) ==
    LET head == bufWrite(writeHeaders(bufWrite(NewWriter(w), StatusLine(r)), r.Headers, order), CRLF)
        copied == bufWrite(head, r.Body)
        copyErr == IF copied.err # NoErr THEN copied.err
                   ELSE IF readErr THEN ErrRead ELSE NoErr
    IN  IF copyErr # NoErr THEN [w |-> copied.wr, err |-> copyErr]
        ELSE [w |-> Flush(copied).wr, err |-> Flush(copied).err]

\* the numbers of bytes after which a failing connection fails a write of
\* r: at once (the status line fails), after the status line (a header
\* fails), before the last byte (the copy of the body fails partway)
Rooms(r) ==
    LET total == Len(StatusLine(r)) + Len(HeaderBytes(r.Headers, CHOOSE o \in Orders(DOMAIN r.Headers) : TRUE)) + 2 + Len(r.Body)
    IN  {0, Len(StatusLine(r)), total - 1}

\* the connections a response r can be written to: one that takes every
\* byte, and the failing ones
Writers(r) ==
    {Writer(<<>>, FALSE, 0)} \cup {Writer(<<>>, TRUE, k) : k \in Rooms(r)}

\* the older package response: its statusText table
statusTextOld(code) ==
    IF code = 204 THEN <<"N", "o", SP, "C", "o", "n", "t", "e", "n", "t">>
    ELSE statusText(code)

\* the older response.New: the fallback text and the two default headers
NewOld(statusCode, body) ==
    [StatusCode |-> statusCode,
     StatusText |-> IF statusTextOld(statusCode) = <<>>
                    THEN <<"S", "t", "a", "t", "u", "s", SP, "U", "n", "k", "n", "o", "w", "n">>
                    ELSE statusTextOld(statusCode),
     Headers |-> MapSet(MapSet(EmptyMap, ContentLength, Itoa(Len(body))),
                        ContentType, <<"t", "e", "x", "t", "/", "p", "l", "a", "i", "n">>),
     Body |-> body]

\* the status codes, bodies, errors and headers applications build responses of
StatusCodes == {200, 201, 204, 400, 404, 418, 500}
ResponseBodies == {<<>>, <<"h", "i">>, <<"a", CR, LF, CR, LF, "b">>}
ResponseErrors ==
    {NewBadRequest(<<"b", "a", "d">>), NewNotFound(<<"/", "x">>),
     [type |-> "errors.errorString", msg |-> "boom"]}
ExtraHeaders == {<<<<"X", "-", "A">>, <<"1">>>>, <<ContentType, <<"a", "/", "b">>>>}

ResponseInit ==
    /\ built = <<>> /\ written = <<>>
    /\ nodes = <<>> /\ trees = EmptyMap /\ routes = <<>> /\ found = <<>>
    /\ authored = <<>> /\ stream = <<>>
    /\ parsed = <<>> /\ parsedInternal = <<>> /\ bodyRead = <<>>
    /\ netConn = OpenConn
    /\ phase = "setup" /\ alive = TRUE /\ tasks = <<>>
    /\ mu = Unlocked /\ procs = <<>>

\* a call of response.New, response.Text, response.Error or the older
\* response.New
Build(r) ==
    /\ built = <<>>
    /\ built' = <<r>>
    /\ UNCHANGED written
    /\ UNCHANGED <<routerVars, parseVars, serverVars, lockVars>>

\* resp.Headers[k] = v by the application, before the response is written
SetHeader(k, v) ==
    /\ built # <<>> /\ written = <<>>
    /\ built' = <<[built[1] EXCEPT !.Headers = MapSet(@, k, v)]>>
    /\ UNCHANGED written
    /\ UNCHANGED <<routerVars, parseVars, serverVars, lockVars>>

\* resp.Write(w) on a writer that takes every byte
Write ==
    /\ built # <<>> /\ written = <<>>
    /\ \E b \in WriteBytes(built[1]) : written' = <<b>>
    /\ UNCHANGED built
    /\ UNCHANGED <<routerVars, parseVars, serverVars, lockVars>>

ResponseNext ==
    \/ \E code \in StatusCodes, body \in ResponseBodies : Build(NewResponse(code, body))
    \/ \E code \in StatusCodes, body \in ResponseBodies : Build(Text(code, body))
    \/ \E code \in StatusCodes, body \in ResponseBodies : Build(NewOld(code, body))
    \/ \E err \in ResponseErrors : Build(Error(err))
    \/ \E h \in ExtraHeaders : SetHeader(h[1], h[2])
    \/ Write

SpecResponse == ResponseInit /\ [][ResponseNext]_vars

-----------------------------------------------------------------------------
(* Server: ListenAndServe and one handleConnection task per connection.    *)

Conns == 1..MaxConns

\* what the code of a registered handler can do when it is called
HandlerKinds == {"text", "stream", "httperr", "err", "panic", "nil"}

\* the requests the clients of a run send
ServerRequests ==
    { [tokens |-> <<GET, <<"/">>, HTTP11>>, headers |-> <<>>, ends |-> "body",
       body |-> <<>>, eol |-> CRLF],
      [tokens |-> <<GET, <<"/", "b">>, HTTP11>>, headers |-> <<>>, ends |-> "body",
       body |-> <<>>, eol |-> CRLF],
      [tokens |-> <<GET, <<"/">>>>, headers |-> <<>>, ends |-> "body",
       body |-> <<>>, eol |-> CRLF],
      [tokens |-> <<GET, <<"/">>, HTTP11>>, headers |-> <<>>, ends |-> "line",
       body |-> <<>>, eol |-> CRLF] }

\* the routes an application registers before it serves
ServerPaths == {<<"/">>, <<"/", ":", "x">>}

IdleTask ==
    [pc |-> "idle", inp |-> <<>>, req |-> <<>>, handler |-> NilHandler,
     resp |-> <<>>, err |-> NoErr, out |-> <<>>, parseFailed |-> FALSE,
     ran |-> "", panicked |-> FALSE, parses |-> 0, writes |-> 0, writeErrs |-> 0,
     closes |-> 0, readErr |-> FALSE, calls |-> <<>>]

\* rhttp.New
ServerInit ==
    /\ nodes = <<>> /\ trees = EmptyMap /\ routes = <<>> /\ found = <<>>
    /\ authored = <<>> /\ stream = <<>>
    /\ parsed = <<>> /\ parsedInternal = <<>> /\ bodyRead = <<>>
    /\ netConn = OpenConn
    /\ phase = "setup"
    /\ alive = TRUE
    /\ tasks = [c \in Conns |-> IdleTask]
    /\ built = <<>> /\ written = <<>>
    /\ mu = Unlocked /\ procs = <<>>

\* Server.AddRoute, called before ListenAndServe
ServerAddRoute(method, path, handler) ==
    /\ phase = "setup"
    /\ AddRoute(method, path, handler)

\* Server.ListenAndServe up to its accept loop: net.Listen succeeds or fails
ListenAndServe ==
    /\ phase = "setup"
    /\ \E ok \in BOOLEAN : phase' = IF ok THEN "serving" ELSE "failed"
    /\ UNCHANGED <<alive, tasks>>
    /\ UNCHANGED routerVars
    /\ UNCHANGED parseVars
    /\ UNCHANGED <<responseVars, lockVars>>

\* the accept loop: listener.Accept returns a connection, whose client has
\* sent a request, and go s.handleConnection(conn) starts its task
Accept(c) ==
    /\ phase = "serving" /\ alive
    /\ tasks[c].pc = "idle"
    /\ \E a \in ServerRequests :
          tasks' = [tasks EXCEPT ![c].pc = "parse", ![c].inp = Wire(a)]
    /\ UNCHANGED <<phase, alive>>
    /\ UNCHANGED routerVars
    /\ UNCHANGED parseVars
    /\ UNCHANGED <<responseVars, lockVars>>

\* request.Parse on each of the requests clients send, tabulated
ParseOf == [w \in {Wire(a) : a \in ServerRequests} |-> Parse(w)]

\* handleConnection: request.Parse(conn), and the branch on its error
afterParse(t) ==
    LET r == ParseOf[t.inp]
    IN  IF r.err # NoErr
        THEN [t EXCEPT !.pc = "error", !.err = r.err, !.parseFailed = TRUE,
                       !.parses = @ + 1]
        ELSE [t EXCEPT !.pc = "route", !.req = r.req, !.parses = @ + 1]

ParseRequest(c) ==
    /\ alive /\ tasks[c].pc = "parse"
    /\ tasks' = [tasks EXCEPT ![c] = afterParse(tasks[c])]
    /\ UNCHANGED <<phase, alive>>
    /\ UNCHANGED routerVars
    /\ UNCHANGED parseVars
    /\ UNCHANGED <<responseVars, lockVars>>

\* handleConnection: s.router.FindHandler, req.PathParams = params, and the
\* not-found error for a nil handler
Route(c) ==
    /\ alive /\ tasks[c].pc = "route"
    /\ LET req == tasks[c].req[1]
       IN  \E r \in FindHandlerIn(nodes, trees, req.Method, req.Target) :
             tasks' = IF r.handler # NilHandler
                      THEN [tasks EXCEPT ![c].pc = "handle",
                                         ![c].handler = r.handler,
                                         ![c].req = <<[req EXCEPT !.PathParams = r.params]>>]
                      ELSE [tasks EXCEPT ![c].pc = "error",
                                         ![c].req = <<[req EXCEPT !.PathParams = r.params]>>,
                                         ![c].err = NewNotFound(req.Target)]
    /\ UNCHANGED <<phase, alive>>
    /\ UNCHANGED routerVars
    /\ UNCHANGED parseVars
    /\ UNCHANGED <<responseVars, lockVars>>

\* handleConnection: resp, err = handler(req), for what the handler's code does
Invoke(c, kind) ==
    /\ alive /\ tasks[c].pc = "handle"
    /\ tasks' =
          CASE kind = "text" ->
                 [tasks EXCEPT ![c].pc = "write", ![c].ran = kind,
                               ![c].resp = <<Text(200, <<"h", "i">>)>>]
            [] kind = "stream" ->
                 [tasks EXCEPT ![c].pc = "write", ![c].ran = kind,
                               ![c].resp = <<NewResponse(200, <<"h", "i">>)>>,
                               ![c].readErr = TRUE]
            [] kind = "nil" ->
                 [tasks EXCEPT ![c].pc = "write", ![c].ran = kind]
            [] kind = "httperr" ->
                 [tasks EXCEPT ![c].pc = "error", ![c].ran = kind,
                               ![c].err = NewBadRequest(<<"b", "a", "d">>)]
            [] kind = "err" ->
                 [tasks EXCEPT ![c].pc = "error", ![c].ran = kind,
                               ![c].err = [type |-> "errors.errorString", msg |-> "boom"]]
            [] kind = "panic" ->
                 [tasks EXCEPT ![c].pc = "panic", ![c].ran = kind,
                               ![c].panicked = TRUE]
    /\ UNCHANGED <<phase, alive>>
    /\ UNCHANGED routerVars
    /\ UNCHANGED parseVars
    /\ UNCHANGED <<responseVars, lockVars>>

\* the error recoverFromPanic makes of a recovered panic
UnexpectedError ==
    NewInternalServerError(<<"a", "n", SP, "u", "n", "e", "x", "p", "e", "c", "t", "e", "d", SP, "e", "r", "r", "o", "r", SP, "o", "c", "c", "u", "r", "r", "e", "d">>)

\* the responses a task of the server writes: the handlers' ones, and
\* response.Error of each error handleError is called with
ServerResponses ==
    {Text(200, <<"h", "i">>), NewResponse(200, <<"h", "i">>)}
    \cup {Error(ParseOf[i].err) : i \in {j \in DOMAIN ParseOf : ParseOf[j].err # NoErr}}
    \cup {Error(NewNotFound(ParseOf[i].req[1].Target)) :
              i \in {j \in DOMAIN ParseOf : ParseOf[j].err = NoErr}}
    \cup {Error(NewBadRequest(<<"b", "a", "d">>)),
          Error([type |-> "errors.errorString", msg |-> "boom"]),
          Error(UnexpectedError)}

\* the connections of the server's responses, tabulated
WritersOf == {<<r, Writers(r)>> : r \in ServerResponses}
ConnWriters(r) == UNION {x[2] : x \in {y \in WritersOf : y[1] = r}}

\* Response.Write on each response and connection of the server, tabulated
WriteCalls ==
    UNION {{r} \X Orders(DOMAIN r.Headers) \X Writers(r) \X BOOLEAN : r \in ServerResponses}
WriteOf == {<<x, ResponseWrite(x[1], x[2], x[3], x[4])>> : x \in WriteCalls}

\* err := resp.Write(conn) by task t, on a connection that behaves as w and
\* with a body whose Read fails (readErr) or not; the error is logged
connWrite(t, resp, w, readErr) ==
    UNION { { [t EXCEPT !.out = @ \o x[2].w.out,
                        !.writes = IF x[2].err = NoErr THEN @ + 1 ELSE @,
                        !.writeErrs = IF x[2].err = NoErr THEN @ ELSE @ + 1,
                        !.calls = Append(@, [resp |-> call[1], w |-> call[2], readErr |-> call[3]]),
                        !.pc = "close"] :
                x \in {y \in WriteOf : <<y[1][1], y[1][3], y[1][4]>> = call} } :
            call \in {<<resp, w, readErr>>} }

\* handleConnection: resp.Write(conn); a nil resp is a nil dereference, a
\* run-time panic raised before any byte is flushed
WriteResponse(c) ==
    /\ alive /\ tasks[c].pc = "write"
    /\ IF tasks[c].resp = <<>>
       THEN tasks' = [tasks EXCEPT ![c].pc = "panic", ![c].panicked = TRUE]
       ELSE \E w \in ConnWriters(tasks[c].resp[1]) :
              \E t \in connWrite(tasks[c], tasks[c].resp[1], w, tasks[c].readErr) :
                 tasks' = [tasks EXCEPT ![c] = t]
    /\ UNCHANGED <<phase, alive>>
    /\ UNCHANGED routerVars
    /\ UNCHANGED parseVars
    /\ UNCHANGED <<responseVars, lockVars>>

\* a handleError that only logs the error
handleErrorSilent(t, err, w) == {[t EXCEPT !.pc = "close"]}

\* Server.handleError: response.Error(err), then resp.Write(conn)
handleError(t, err, w) == connWrite(t, Error(err), w, FALSE)

\* handleConnection: s.handleError(conn, err); return
HandleError(c) ==
    /\ alive /\ tasks[c].pc = "error"
    /\ \E w \in ConnWriters(Error(tasks[c].err)) :
          \E t \in handleError(tasks[c], tasks[c].err, w) :
             tasks' = [tasks EXCEPT ![c] = t]
    /\ UNCHANGED <<phase, alive>>
    /\ UNCHANGED routerVars
    /\ UNCHANGED parseVars
    /\ UNCHANGED <<responseVars, lockVars>>

\* a deferred call that does not call recover(): the panic leaves the
\* goroutine and ends the process
recoverFromPanicNoRecover(t, w) ==
    {[alive |-> FALSE, task |-> t]}

\* Server.recoverFromPanic, deferred, while the task panics: recover()
\* returns the panic value and handleError writes the 500 response
recoverFromPanic(t, w) ==
    {[alive |-> TRUE, task |-> u] : u \in handleError(t, UnexpectedError, w)}

\* handleConnection: the deferred recoverFromPanic of a panicking task
Recover(c) ==
    /\ alive /\ tasks[c].pc = "panic"
    /\ \E w \in ConnWriters(Error(UnexpectedError)) :
          \E r \in recoverFromPanic(tasks[c], w) :
             /\ tasks' = [tasks EXCEPT ![c] = r.task]
             /\ alive' = r.alive
    /\ UNCHANGED phase
    /\ UNCHANGED routerVars
    /\ UNCHANGED parseVars
    /\ UNCHANGED <<responseVars, lockVars>>

\* a conn.Close() that is the last statement of handleConnection and not
\* deferred: a task that returns early or panics ends without it
CloseNotDeferred(c) ==
    /\ alive /\ tasks[c].pc = "close"
    /\ tasks' = [tasks EXCEPT ![c].pc = "done",
                              ![c].closes = IF tasks[c].err = NoErr /\ ~tasks[c].panicked
                                            THEN @ + 1 ELSE @]
    /\ UNCHANGED <<phase, alive>>
    /\ UNCHANGED routerVars
    /\ UNCHANGED parseVars
    /\ UNCHANGED <<responseVars, lockVars>>

\* handleConnection: the deferred conn.Close() as the task returns
Close(c) ==
    /\ alive /\ tasks[c].pc = "close"
    /\ tasks' = [tasks EXCEPT ![c].pc = "done", ![c].closes = @ + 1]
    /\ UNCHANGED <<phase, alive>>
    /\ UNCHANGED routerVars
    /\ UNCHANGED parseVars
    /\ UNCHANGED <<responseVars, lockVars>>

TaskStep(c) ==
    \/ ParseRequest(c)
    \/ Route(c)
    \/ \E kind \in HandlerKinds : Invoke(c, kind)
    \/ WriteResponse(c)
    \/ HandleError(c)
    \/ Recover(c)
    \/ Close(c)

ServerNext ==
    \/ \E p \in ServerPaths : ServerAddRoute(GET, p, Len(routes) + 1)
    \/ ListenAndServe
    \/ \E c \in Conns : Accept(c)
    \/ \E c \in Conns : TaskStep(c)

SpecServer == ServerInit /\ [][ServerNext]_vars

\* the Go scheduler runs every runnable goroutine: a task that can step does
FairSpecServer == SpecServer /\ \A c \in Conns : WF_vars(TaskStep(c))

-----------------------------------------------------------------------------
(* Properties of the router.                                               *)

\* the non-empty segments of a path
Segments(path) == SelectSeq(Split(path, "/"), LAMBDA seg : seg # <<>>)

IsParamSeg(seg) == Len(seg) > 0 /\ seg[1] = ":"

\* pattern segments ps match target segments ts: as many segments, and every
\* literal segment equal
Matches(ps, ts) ==
    /\ Len(ps) = Len(ts)
    /\ \A i \in 1..Len(ps) : IsParamSeg(ps[i]) \/ ps[i] = ts[i]

\* the parameter map a match of ps against ts binds: each parameter name,
\* sigil stripped, to the segment of ts at the (last) position of that name
Bindings(ps, ts) ==
    LET at == {i \in 1..Len(ps) : IsParamSeg(ps[i])}
        last(name) == CHOOSE i \in at :
                          /\ Tail(ps[i]) = name
                          /\ \A j \in at : Tail(ps[j]) = name => j <= i
    IN  [name \in {Tail(ps[i]) : i \in at} |-> ts[last(name)]]

\* C1: with (m, p, h) the only route and p holding a parameter segment,
\* FindHandler(m, t) returns h and the bindings of p's parameters whenever t
\* matches p; a target with more segments than p, and any target under
\* another method, is not found.
C1_RoundTrip ==
    (Len(routes) = 1 /\ found # <<>>) =>
        LET m == routes[1][1]
            ps == Segments(routes[1][2])
            h == routes[1][3]
            f == found[1]
            ts == Segments(f.path)
        IN  (\E i \in 1..Len(ps) : IsParamSeg(ps[i])) =>
                /\ (f.method = m /\ Matches(ps, ts)) =>
                       f.result = [handler |-> h, params |-> Bindings(ps, ts)]
                /\ Len(ts) > Len(ps) => f.result = NotFound
                /\ f.method # m => f.result = NotFound

\* C1 witness: "/a/:x" is the only route and GET "/a/b" found its handler with
\* x bound to "b"
C1_Witness ==
    /\ routes = <<<<GET, <<"/", "a", "/", ":", "x">>, 1>>>>
    /\ found = <<[method |-> GET, path |-> <<"/", "a", "/", "b">>,
                  result |-> [handler |-> 1, params |-> (<<"x">> :> <<"b">>)]]>>

\* C2: when a literal route and a parameter route of the same method both
\* match the target, with the literal route matching it segment for segment,
\* FindHandler returns the literal route's handler, whichever was registered
\* first.
C2_LiteralPreferred ==
    found # <<>> =>
        LET f == found[1]
            ts == Segments(f.path)
        IN  \A i, j \in 1..Len(routes) :
                (/\ routes[i][1] = f.method /\ routes[j][1] = f.method
                 /\ Segments(routes[i][2]) = ts
                 /\ Segments(routes[j][2]) # ts
                 /\ Matches(Segments(routes[j][2]), ts)
                 /\ \A k \in 1..Len(routes) :
                        (routes[k][1] = f.method
                         /\ Segments(routes[k][2]) = ts) => k <= i)
                    => f.result.handler = routes[i][3]

-----------------------------------------------------------------------------
(* Properties of the request parser.                                       *)

\* the client sent a three-token request line, its header lines and the
\* blank line
ThreeTokenRequest == Len(authored.tokens) = 3 /\ authored.ends = "body"

\* the header map the lines with a colon describe: trimmed name -> trimmed
\* value, a later line replacing an earlier one of the same name
RECURSIVE HeadersOf(_, _)
HeadersOf(items, acc) ==
    IF Len(items) = 0 THEN acc
    ELSE HeadersOf(Tail(items),
             IF items[1].colon
             THEN MapSet(acc, TrimSpace(items[1].name), TrimSpace(items[1].value))
             ELSE acc)

AuthoredHeaders == HeadersOf(authored.headers, EmptyMap)

HasContentLength == ContentLength \in DOMAIN AuthoredHeaders

\* the request declares Content-Length: n in decimal
DeclaresLength(n) == HasContentLength /\ AuthoredHeaders[ContentLength] = Itoa(n)

\* the Content-Length text is no non-negative decimal number
InvalidLength ==
    /\ HasContentLength
    /\ LET v == AuthoredHeaders[ContentLength]
       IN  Len(v) = 0 \/ \E i \in 1..Len(v) : v[i] \notin Digits

\* C3: a request with a three-token request line and `name: value` header
\* lines up to the blank line parses without error into the three tokens in
\* order and exactly the authored headers, names and values trimmed.
C3_ParseRoundTrip ==
    (/\ parsed # <<>>
     /\ ThreeTokenRequest
     /\ \A i \in 1..Len(authored.headers) : authored.headers[i].colon) =>
        /\ parsed[1].err = NoErr
        /\ Len(parsed[1].req) = 1
        /\ parsed[1].req[1].Method = authored.tokens[1]
        /\ parsed[1].req[1].Target = authored.tokens[2]
        /\ parsed[1].req[1].Version = authored.tokens[3]
        /\ parsed[1].req[1].Headers = AuthoredHeaders

\* C3 witness: "Host:   y " and " A :b:c" were parsed to Host -> y, A -> b:c
C3_Witness ==
    /\ parsed # <<>> /\ parsed[1].err = NoErr
    /\ authored.tokens = <<GET, <<"/">>, HTTP11>>
    /\ Len(authored.headers) = 2
    /\ parsed[1].req[1].Headers = (Host :> <<"y">>) @@ (<<"A">> :> <<"b", ":", "c">>)

\* C4: a request line (some byte of it arrived) that splits on single spaces
\* into other than three tokens makes Parse fail with the malformed-request-line error and return
\* no Request.
C4_MalformedLine ==
    (/\ parsed # <<>>
     /\ stream # <<>>
     /\ Len(authored.tokens) # 3) =>
        /\ parsed[1].err = ErrMalformedLine
        /\ parsed[1].req = <<>>

\* C4 witness: "GET  / HTTP/1.1", with a repeated space, was rejected
C4_Witness ==
    /\ parsed # <<>> /\ parsed[1].err = ErrMalformedLine
    /\ authored.tokens = <<GET, <<>>, <<"/">>, HTTP11>>

C6_TruncatedBodyFails ==
    (/\ parsed # <<>>
     /\ ThreeTokenRequest
     /\ \E n \in 1..(MaxBody + 1) : DeclaresLength(n) /\ Len(authored.body) < n) =>
        /\ parsed[1].err # NoErr
        /\ parsed[1].req = <<>>

\* C7: with a Content-Length that is no non-negative integer, every Parse of
\* the repository succeeds, keeps the raw text in Headers and gives an empty
\* body.
C7_InvalidLengthPolicy ==
    (ThreeTokenRequest /\ InvalidLength) =>
        /\ parsed # <<>> =>
               /\ parsed[1].err = NoErr
               /\ parsed[1].req[1].Headers[ContentLength] = AuthoredHeaders[ContentLength]
               /\ parsed[1].req[1].Body.kind = "empty"
        /\ bodyRead # <<>> => bodyRead[1] = <<>>
        /\ parsedInternal # <<>> =>
               /\ parsedInternal[1].err = NoErr
               /\ ~parsedInternal[1].panic
               /\ parsedInternal[1].req[1].Headers[ContentLength] = AuthoredHeaders[ContentLength]
               /\ parsedInternal[1].req[1].Body = <<>>

\* C8: a header line without a colon adds no entry, does not fail the parse
\* and does not keep the lines before and after it from being recorded.
C8_NoColonSkipped ==
    (/\ parsed # <<>>
     /\ ThreeTokenRequest
     /\ \E i \in 1..Len(authored.headers) : ~authored.headers[i].colon) =>
        /\ parsed[1].err = NoErr
        /\ parsed[1].req[1].Headers = AuthoredHeaders

\* C8 witness: "H x" then "Host: x" were sent and only Host was recorded
C8_Witness ==
    /\ parsed # <<>> /\ parsed[1].err = NoErr
    /\ Len(authored.headers) = 2
    /\ ~authored.headers[1].colon /\ authored.headers[2].colon
    /\ parsed[1].req[1].Headers = (Host :> <<"x">>)

\* C18: whatever number of Body.Close() calls is made, before or after the
\* body is read, the connection is open until the driver closes it and the
\* driver's write of the response is not failed by a closed connection.
C18_BodyCloseKeepsConn ==
    /\ netConn.open = ~netConn.driverClosed
    /\ netConn.wrote # "failed"

\* C18 witness: the body was closed twice and read to its end, and the
\* driver then wrote the response on the open connection
C18_Witness ==
    /\ netConn.bodyCloses = 2 /\ netConn.open
    /\ bodyRead = <<SubSeq(BodyText, 1, 2)>>
    /\ netConn.wrote = "ok"

\* C16: on every byte stream each Parse of the repository returns either a
\* Request or an error, and never panics.
C16_ParseNeverPanics ==
    /\ parsed # <<>> => (parsed[1].err = NoErr) = (parsed[1].req # <<>>)
    /\ parsedInternal # <<>> =>
           /\ ~parsedInternal[1].panic
           /\ (parsedInternal[1].err = NoErr) = (parsedInternal[1].req # <<>>)

-----------------------------------------------------------------------------
(* Properties of the server.                                               *)

\* the status code on the status line of the bytes a client received
StatusOf(bytes) ==
    LET line == SubSeq(bytes, 1, IndexByte(bytes, CR) - 1)
    IN  ParseInt(Split(line, SP)[2]).val

\* C9: every failure request.Parse returns carries the status code 400, and
\* the response handleConnection writes for a parse failure has status 400.
C9_ParseFailureIs400 ==
    \A c \in Conns :
        tasks[c].parseFailed =>
            /\ "StatusCode" \in DOMAIN tasks[c].err
            /\ tasks[c].err.StatusCode = 400
            /\ tasks[c].writes > 0 => StatusOf(tasks[c].out) = 400

\* C10: a panic while a handler runs is recovered in its own task, which
\* writes one response, a 500 when the connection takes it; the process stays
\* alive, and every accepted connection's task runs to its end.
C10_PanicContained ==
    /\ [](alive)
    /\ [](\A c \in Conns :
            (tasks[c].ran = "panic" /\ tasks[c].pc \in {"close", "done"}) =>
                /\ tasks[c].writes + tasks[c].writeErrs = 1
                /\ tasks[c].writes = 1 => StatusOf(tasks[c].out) = 500)
    /\ \A c \in Conns : [](tasks[c].pc # "idle" => <>(tasks[c].pc = "done"))

\* C10 witness: one task's handler panicked and its client received the 500,
\* while another task served its request with a 200
C10_Witness ==
    \E c, d \in Conns :
        /\ tasks[c].ran = "panic" /\ tasks[c].pc = "done"
        /\ tasks[c].writes = 1 /\ StatusOf(tasks[c].out) = 500
        /\ tasks[d].ran = "text" /\ tasks[d].pc = "done"
        /\ tasks[d].writes = 1 /\ StatusOf(tasks[d].out) = 200

\* C11: a connection's task parses one request and then makes one write of
\* one response, on every path: nothing is written before the parse, and a
\* task at its end has parsed once and written once, the bytes its client
\* received being one whole response.
C11_OneRequestOneResponse ==
    \A c \in Conns :
        LET t == tasks[c]
        IN  /\ t.parses <= 1
            /\ t.writes + t.writeErrs <= 1
            /\ t.writes + t.writeErrs > 0 => t.parses = 1
            /\ t.pc \in {"close", "done"} =>
                   /\ t.parses = 1
                   /\ t.writes + t.writeErrs = 1
                   /\ t.writes = 1 =>
                          \E r \in {Error(t.err)} \cup {t.resp[i] : i \in 1..Len(t.resp)}
                                   \cup {Error(NewInternalServerError(<<"a", "n", SP, "u", "n", "e", "x", "p", "e", "c", "t", "e", "d", SP, "e", "r", "r", "o", "r", SP, "o", "c", "c", "u", "r", "r", "e", "d">>))} :
                              t.out \in WriteBytes(r)

\* C11 witness: a handler returned a nil response and a nil error, and its
\* client received one response, the recovered 500
C11_Witness ==
    \E c \in Conns :
        /\ tasks[c].ran = "nil" /\ tasks[c].pc = "done"
        /\ tasks[c].parses = 1 /\ tasks[c].writes = 1
        /\ StatusOf(tasks[c].out) = 500

\* the bytes after the blank line of a serialized response
BodyOf(bytes) ==
    LET k == CHOOSE i \in 1..(Len(bytes) - 3) :
                 /\ SubSeq(bytes, i, i + 3) = CRLF \o CRLF
                 /\ \A j \in 1..(i - 1) : SubSeq(bytes, j, j + 3) # CRLF \o CRLF
    IN  SubSeq(bytes, k + 4, Len(bytes))

\* sub occurs in s
Contains(s, sub) ==
    \E i \in 1..(Len(s) - Len(sub) + 1) : SubSeq(s, i, i + Len(sub) - 1) = sub

\* the task's request was parsed and FindHandler returned no handler for it
Unrouted(t) ==
    /\ t.parses = 1 /\ ~t.parseFailed
    /\ t.pc \in {"error", "close", "done"}
    /\ t.handler = NilHandler

\* C12: a request FindHandler resolves to no handler runs no handler, and the
\* response its client receives has status 404 and a body that contains the
\* request's target.
C12_NotFoundIs404 ==
    \A c \in Conns :
        Unrouted(tasks[c]) =>
            /\ tasks[c].ran = ""
            /\ ~tasks[c].panicked
            /\ tasks[c].err = NewNotFound(tasks[c].req[1].Target)
            /\ tasks[c].writes > 0 =>
                   /\ StatusOf(tasks[c].out) = 404
                   /\ Contains(BodyOf(tasks[c].out), tasks[c].req[1].Target)

\* C12 witness: only "/" is registered, and the client that asked for "/b"
\* received a 404 naming "/b"
C12_Witness ==
    \E c \in Conns :
        /\ Len(routes) = 1 /\ routes[1][2] = <<"/">>
        /\ Unrouted(tasks[c]) /\ tasks[c].pc = "done" /\ tasks[c].writes = 1
        /\ tasks[c].req[1].Target = <<"/", "b">>
        /\ StatusOf(tasks[c].out) = 404
        /\ Contains(BodyOf(tasks[c].out), <<"/", "b">>)

\* "HTTP/1.1 200 OK\r\nContent-Type: text/plain; charset=utf-8\r\n
\*  Content-Length: 2\r\n\r\nhi"
HiWire ==
    <<"H", "T", "T", "P", "/", "1", ".", "1", SP, "2", "0", "0", SP, "O", "K">> \o CRLF
    \o ContentType \o <<":", SP>> \o TextPlain \o CRLF
    \o ContentLength \o <<":", SP, "2">> \o CRLF
    \o CRLF \o <<"h", "i">>

\* C13: the bytes a client receives from a handler that returned
\* response.Text(200, "hi") are always the status line, Content-Type, then
\* Content-Length (the order of insertion), the blank line and "hi".
C13_WireBytesDeterministic ==
    \A c \in Conns :
        (tasks[c].ran = "text" /\ tasks[c].writes = 1) => tasks[c].out = HiWire

-----------------------------------------------------------------------------
(* Properties of the responses.                                            *)

\* the index of the first CRLF of s, 0 when it has none
IndexCRLF(s) ==
    IF \E i \in 1..(Len(s) - 1) : s[i] = CR /\ s[i + 1] = LF
    THEN CHOOSE i \in 1..(Len(s) - 1) :
             /\ s[i] = CR /\ s[i + 1] = LF
             /\ \A j \in 1..(i - 1) : ~(s[j] = CR /\ s[j + 1] = LF)
    ELSE 0

\* the CRLF-ended lines of s up to its first empty line, and what follows it
RECURSIVE HeadLines(_, _)
HeadLines(s, acc) ==
    LET k == IndexCRLF(s)
    IN  IF k = 0 THEN [lines |-> acc, blank |-> FALSE, rest |-> s]
        ELSE IF k = 1 THEN [lines |-> acc, blank |-> TRUE, rest |-> SubSeq(s, 3, Len(s))]
        ELSE HeadLines(SubSeq(s, k + 2, Len(s)), Append(acc, SubSeq(s, 1, k - 1)))

\* C14: the bytes Write hands to the writer are one status line
\* "HTTP/1.1 <code> <text>", then one line "<name>: <value>" for each entry of
\* Headers and no other line, then the blank line, then the body and nothing
\* more.
C14_WireFormat ==
    written # <<>> =>
        LET r == built[1]
            h == HeadLines(written[1], <<>>)
            hs == Tail(h.lines)
        IN  /\ h.blank
            /\ Len(h.lines) >= 1
            /\ h.lines[1] = <<"H", "T", "T", "P", "/", "1", ".", "1", SP>>
                              \o Itoa(r.StatusCode) \o <<SP>> \o r.StatusText
            /\ Len(hs) = Cardinality(DOMAIN r.Headers)
            /\ \A k \in DOMAIN r.Headers :
                   Cardinality({i \in 1..Len(hs) : hs[i] = k \o <<":", SP>> \o r.Headers[k]}) = 1
            /\ h.rest = r.Body

\* C14 witness: a text response with a third header and a body holding a
\* blank line was written
C14_Witness ==
    /\ written # <<>>
    /\ Cardinality(DOMAIN built[1].Headers) = 3
    /\ built[1].Body = <<"a", CR, LF, CR, LF, "b">>
    /\ HeadLines(written[1], <<>>).rest = built[1].Body

-----------------------------------------------------------------------------
(* Properties of the router under concurrent callers.                      *)

\* the router after the first k registrations of rs, made one after another
RECURSIVE Replay(_, _)
Replay(rs, k) ==
    IF k = 0 THEN [nodes |-> <<>>, trees |-> EmptyMap]
    ELSE LET r == Replay(rs, k - 1)
             m == rs[k][1]
             ns == IF m \in DOMAIN r.trees THEN r.nodes ELSE Append(r.nodes, RootNode)
             ts == IF m \in DOMAIN r.trees THEN r.trees
                   ELSE MapSet(r.trees, m, Len(r.nodes) + 1)
         IN  [nodes |-> insert(ns, ts[m], rs[k][2], rs[k][3], m), trees |-> ts]

\* C15: no goroutine is inside FindHandler's or AddRoute's locked region
\* while another is inside AddRoute's, the lock's state counts the holders,
\* and a FindHandler that has returned returned what it returns on the
\* router as it stood after some number of whole registrations, between those
\* finished when it was called and those finished when it returned.
C15_ReaderWriterExclusion ==
    /\ \A p, q \in Procs :
           (p # q /\ procs[p].op = "add" /\ InCS(procs[p])) => ~InCS(procs[q])
    /\ mu.writer = (\E p \in Procs : procs[p].op = "add" /\ InCS(procs[p]))
    /\ mu.readers = Cardinality({p \in Procs : procs[p].op = "find" /\ InCS(procs[p])})
    /\ \A p \in Procs :
           (procs[p].op = "find" /\ procs[p].pc = "idle") =>
               \E k \in procs[p].lo..procs[p].hi :
                   LET r == Replay(routes, k)
                   IN  procs[p].result[1] \in
                           FindHandlerIn(r.nodes, r.trees, procs[p].method, procs[p].path)

\* C15 witness: a FindHandler called before the first registration finished
\* has returned that registration's handler, and two other FindHandler calls
\* are inside the read-locked region at once
C15_Witness ==
    \E p, q, r \in Procs :
        /\ p # q /\ p # r /\ q # r
        /\ procs[p].op = "find" /\ procs[p].pc = "idle"
        /\ procs[p].lo = 0 /\ procs[p].hi = 1
        /\ procs[p].result[1].handler = 1
        /\ procs[q].op = "find" /\ InCS(procs[q])
        /\ procs[r].op = "find" /\ InCS(procs[r])
        /\ mu.readers = 2

UnknownStatus == <<"U", "n", "k", "n", "o", "w", "n", SP, "S", "t", "a", "t", "u", "s">>

\* C17: a constructed response has the status text of the table for its
\* code, and "Unknown Status" for a code in no table; its status text is
\* never empty.
C17_StatusTextFallback ==
    built # <<>> =>
        /\ built[1].StatusText # <<>>
        /\ statusText(built[1].StatusCode) # <<>> =>
               built[1].StatusText = statusText(built[1].StatusCode)
        /\ statusTextOld(built[1].StatusCode) = <<>> =>
               built[1].StatusText = UnknownStatus

-----------------------------------------------------------------------------
(* More properties of the router.                                          *)

\* C19: FindHandler(m, t) returns a handler only when a route registered
\* under m has as many segments as t and matches it segment by segment, and
\* the handler is that of such a route; every other call returns the one
\* not-found result, a nil handler with no parameters, whether the method or
\* the path did not match.
C19_ResolutionSound ==
    found # <<>> =>
        LET f == found[1]
            ts == Segments(f.path)
            hits == {i \in 1..Len(routes) :
                        /\ routes[i][1] = f.method
                        /\ Matches(Segments(routes[i][2]), ts)}
        IN  /\ f.result.handler # NilHandler =>
                   \E i \in hits : routes[i][3] = f.result.handler
            /\ hits = {} => f.result = NotFound
            /\ f.result.handler = NilHandler => f.result = NotFound

\* C19 witness: "/a/b" is registered under GET and "/b" under POST, and
\* GET "/a", which stops at an intermediate node, was not found
C19_Witness ==
    /\ Len(routes) = 2
    /\ routes[1][1] = GET /\ routes[1][2] = <<"/", "a", "/", "b">>
    /\ routes[2][1] = POST /\ routes[2][2] = <<"/", "b">>
    /\ found = <<[method |-> GET, path |-> <<"/", "a">>, result |-> NotFound]>>

\* the registrations of (method, path) among the first n
SameRoute(method, path, n) ==
    {i \in 1..n : routes[i][1] = method /\ routes[i][2] = path}

Twin(path) ==
    IF path = <<"/">> THEN path
    ELSE IF path[Len(path)] = "/" THEN SubSeq(path, 1, Len(path) - 1)
    ELSE path \o <<"/">>

\* the latest registration of (method, path) or of its twin, 0 when none
LatestOf(method, path) ==
    LET same == SameRoute(method, path, Len(routes))
                    \cup SameRoute(method, Twin(path), Len(routes))
    IN  IF same = {} THEN 0 ELSE CHOOSE j \in same : \A i \in same : i <= j

\* C21: the router a run of AddRoute calls leaves is the one the same calls
\* leave with every path replaced by its twin; FindHandler returns for a
\* target what it returns for the twin; and a handler registered for "/" sits
\* on the root node of its method's tree, where FindHandler(m, "/") finds it.
C21_TrailingSlash ==
    /\ LET twins == [i \in 1..Len(routes) |->
                        <<routes[i][1], Twin(routes[i][2]), routes[i][3]>>]
           r == Replay(twins, Len(routes))
       IN  r.nodes = nodes /\ r.trees = trees
    /\ found # <<>> =>
           found[1].result \in
               FindHandlerIn(nodes, trees, found[1].method, Twin(found[1].path))
    /\ \A m \in Methods :
           LatestOf(m, <<"/">>) # 0 =>
               /\ m \in DOMAIN nodes[trees[m]].handlers
               /\ nodes[trees[m]].handlers[m] = routes[LatestOf(m, <<"/">>)][3]
               /\ (found # <<>> /\ found[1].method = m /\ found[1].path = <<"/">>) =>
                      found[1].result = [handler |-> routes[LatestOf(m, <<"/">>)][3],
                                         params |-> EmptyMap]

\* C21 witness: GET "/a/" and then GET "/" were registered, the router holds
\* the root and one child, and FindHandler(GET, "/a") returned the handler
\* of "/a/"
C21_Witness ==
    /\ routes = <<<<GET, <<"/", "a", "/">>, 1>>, <<GET, <<"/">>, 2>>>>
    /\ Len(nodes) = 2
    /\ nodes[trees[GET]].handlers[GET] = 2
    /\ found = <<[method |-> GET, path |-> <<"/", "a">>,
                  result |-> [handler |-> 1, params |-> EmptyMap]]>>

-----------------------------------------------------------------------------
(* More properties of the request parser.                                  *)

\* the header lines sent with a colon
ColonLines == {i \in 1..Len(authored.headers) : authored.headers[i].colon}

\* headers is the map of the colon lines sent: one entry for each trimmed
\* name, holding the trimmed text after the first colon of the last line of
\* that name
LastLineWins(headers) ==
    /\ DOMAIN headers = {TrimSpace(authored.headers[i].name) : i \in ColonLines}
    /\ \A i \in ColonLines :
           LET same == {j \in ColonLines :
                           TrimSpace(authored.headers[j].name)
                               = TrimSpace(authored.headers[i].name)}
               last == CHOOSE j \in same : \A k \in same : k <= j
           IN  headers[TrimSpace(authored.headers[i].name)]
                   = TrimSpace(authored.headers[last].value)

\* C22: in every Request a Parse of the repository returns, Headers holds
\* one entry for each name sent on a line with a colon, whose value is the
\* trimmed text after the first colon of the last line of that name.
C22_LastHeaderWins ==
    /\ (parsed # <<>> /\ parsed[1].err = NoErr) =>
           LastLineWins(parsed[1].req[1].Headers)
    /\ (parsedInternal # <<>> /\ parsedInternal[1].req # <<>>) =>
           LastLineWins(parsedInternal[1].req[1].Headers)

\* C22 witness: "Host: x" and then "Host:   y " were sent, and both parsers
\* returned the one entry Host -> y
C22_Witness ==
    /\ Len(authored.headers) = 2
    /\ authored.headers[1] = [name |-> Host, value |-> <<SP, "x">>, colon |-> TRUE]
    /\ authored.headers[2] = [name |-> Host, value |-> <<SP, SP, "y", SP>>, colon |-> TRUE]
    /\ parsed # <<>> /\ parsed[1].err = NoErr
    /\ parsed[1].req[1].Headers = (Host :> <<"y">>)
    /\ parsedInternal # <<>> /\ parsedInternal[1].req # <<>>
    /\ parsedInternal[1].req[1].Headers = (Host :> <<"y">>)

-----------------------------------------------------------------------------
(* More properties of the server.                                          *)

\* the number of bytes of the serialized response r
WireLen(r) == Len(CHOOSE b \in WriteBytes(r) : TRUE)

\* in the call of Write, a write to the connection or a Read of the body
\* failed
Faulted(call) ==
    \/ call.readErr
    \/ call.w.fails /\ call.w.room < WireLen(call.resp)

\* C23: Response.Write returns an error exactly when a write of the status
\* line, of a header or of the body to the connection failed or the body's
\* Read failed: it reports success only with the whole response delivered,
\* and after a failure the connection holds a proper prefix of the response.
\* A task calls Write once: after a failed Write it writes nothing more.
C23_WriteFailureReported ==
    /\ [](\A c \in Conns :
            LET t == tasks[c]
            IN  /\ Len(t.calls) <= 1
                /\ t.writes + t.writeErrs = Len(t.calls)
                /\ Len(t.calls) = 1 =>
                       /\ Faulted(t.calls[1]) <=> t.writeErrs = 1
                       /\ t.writes = 1 => t.out \in WriteBytes(t.calls[1].resp)
                       /\ t.writeErrs = 1 =>
                              /\ Len(t.out) < WireLen(t.calls[1].resp)
                              /\ \E b \in WriteBytes(t.calls[1].resp) :
                                     t.out = SubSeq(b, 1, Len(t.out)))
    /\ [][\A c \in Conns :
            tasks[c].writeErrs = 1 =>
                /\ tasks'[c].out = tasks[c].out
                /\ tasks'[c].calls = tasks[c].calls
                /\ tasks'[c].writes = 0 /\ tasks'[c].writeErrs = 1]_vars

\* C23 witness: one task's connection failed after the status line of the
\* handler's response, another's response body failed to read; each Write
\* returned an error and each task ended without writing again
C23_Witness ==
    \E c, d \in Conns :
        /\ tasks[c].ran = "text" /\ tasks[c].pc = "done"
        /\ tasks[c].calls[1].w = Writer(<<>>, TRUE, Len(StatusLine(tasks[c].resp[1])))
        /\ tasks[c].writeErrs = 1 /\ tasks[c].writes = 0
        /\ tasks[c].out = StatusLine(tasks[c].resp[1])
        /\ tasks[d].ran = "stream" /\ tasks[d].pc = "done"
        /\ tasks[d].calls[1].readErr /\ ~tasks[d].calls[1].w.fails
        /\ tasks[d].writeErrs = 1 /\ tasks[d].writes = 0

\* C24: a registered route of literal segments stays reachable: FindHandler
\* of its method and path returns the handler of its latest registration and
\* an empty parameter map, whatever parameter routes are registered with it.
C24_LiteralReachable ==
    found # <<>> =>
        LET f == found[1]
            same == SameRoute(f.method, f.path, Len(routes))
        IN  (same # {} /\ \A i \in 1..Len(Segments(f.path)) : ~IsParamSeg(Segments(f.path)[i])) =>
                f.result = [handler |-> routes[CHOOSE j \in same : \A i \in same : i <= j][3],
                            params |-> EmptyMap]

\* C25: on every path through handleConnection the task closes its
\* connection once, as its last step: a connection is closed at most once,
\* a task has ended exactly when its connection is closed, it has called
\* Write once by then, no byte reaches a closed connection, and the
\* connection of every started task is closed in the end.
C25_ClosedOnceAfterLastByte ==
    /\ [](\A c \in Conns :
            /\ tasks[c].closes <= 1
            /\ tasks[c].closes = 1 <=> tasks[c].pc = "done"
            /\ tasks[c].closes = 1 => Len(tasks[c].calls) = 1)
    /\ [][\A c \in Conns :
            tasks[c].closes = 1 =>
                /\ tasks'[c].closes = 1
                /\ tasks'[c].out = tasks[c].out
                /\ tasks'[c].calls = tasks[c].calls]_vars
    /\ \A c \in Conns : [](tasks[c].pc # "idle" => <>(tasks[c].closes = 1))

\* C25 witness: one connection was closed after the 500 of a recovered
\* panic, another after a failed write of an error response
C25_Witness ==
    \E c, d \in Conns :
        /\ tasks[c].panicked /\ tasks[c].closes = 1
        /\ tasks[c].writes = 1 /\ StatusOf(tasks[c].out) = 500
        /\ tasks[d].parseFailed /\ tasks[d].closes = 1
        /\ tasks[d].writeErrs = 1 /\ tasks[d].writes = 0

=============================================================================
